---- MODULE Spec2Model ----
(***************************************************************************)
(* Model of app.py: the Flask backend of the news searcher.                *)
(*                                                                         *)
(*   classify_sentiment   score -> label                                   *)
(*   get_news             GET  /api/news                                   *)
(*   download_selected    POST /api/download-selected                      *)
(*   index                GET  /                                           *)
(*                                                                         *)
(* Conventions.  A sentiment score, a float in [0,1], is modelled by its   *)
(* number of hundredths (0.65 is 65).  The dictionary keys of an article   *)
(* are written source (來源), title (標題) and sentiment (情感); the labels  *)
(* are written positive (正面), neutral (中性) and negative (負面).  A       *)
(* source name is modelled by its rank in code-point order, which is the   *)
(* order a JSON encoder that sorts keys puts the names in.  A Python call  *)
(* that may raise is modelled by an operator that returns a record with    *)
(* the field ok, and either value or error (the exception).                *)
(***************************************************************************)
EXTENDS Integers, Sequences, FiniteSets, TLC

VARIABLES
    today,      \* the server's current date (date.today(), datetime.now())
    dist,       \* the filesystem at DIST_FOLDER: "absent", "empty", "built"
    req,        \* the request (or function call) being answered, if any
    fetchCall,  \* that request's call of fetch_rss_news and what it returned
    resp,       \* the response to that request
    pc,         \* SpecThreads: each worker thread's position in its handler
    frame,      \* SpecThreads: each worker thread's local variables
    heap        \* SpecThreads: the article lists fetch_rss_news has returned

vars == <<today, dist, req, fetchCall, resp, pc, frame, heap>>

-----------------------------------------------------------------------------
(* Bounds of the model.                                                    *)

MaxNews == 2     \* longest article list fetch_rss_news returns
MaxRows == 2     \* longest list posted to /api/download-selected
MaxTicks == 1    \* midnights that pass after start-up

-----------------------------------------------------------------------------
(* datetime.date: the proleptic Gregorian calendar.                        *)

IsLeap(y) == (y % 4 = 0) /\ ((y % 100 # 0) \/ (y % 400 = 0))

DaysInMonth(y, m) ==
    IF m = 2 THEN (IF IsLeap(y) THEN 29 ELSE 28)
    ELSE IF m \in {4, 6, 9, 11} THEN 30 ELSE 31

DaysBeforeYear(y) ==
    LET p == y - 1 IN (p * 365) + (p \div 4) - (p \div 100) + (p \div 400)

RECURSIVE DaysBeforeMonth(_, _)
DaysBeforeMonth(y, m) ==
    IF m = 1 THEN 0 ELSE DaysBeforeMonth(y, m - 1) + DaysInMonth(y, m - 1)

Date(y, m, d) == [year |-> y, month |-> m, day |-> d]

IsDate(y, m, d) == /\ y \in 1..9999
                   /\ m \in 1..12
                   /\ d \in 1..DaysInMonth(y, m)

toordinal(dt) ==
    DaysBeforeYear(dt.year) + DaysBeforeMonth(dt.year, dt.month) + dt.day

\* date.fromordinal(n), as CPython computes it: the 400-, 100-, 4- and
\* 1-year cycles the day falls in, then the month.
fromordinal(n) ==
    LET n0   == n - 1
        n400 == n0 \div 146097
        r400 == n0 % 146097
        n100 == r400 \div 36524
        r100 == r400 % 36524
        n4   == r100 \div 1461
        r4   == r100 % 1461
        n1   == r4 \div 365
        r1   == r4 % 365
        year == (n400 * 400) + 1 + (n100 * 100) + (n4 * 4) + n1
        est  == (r1 + 50) \div 32
        month == IF DaysBeforeMonth(year, est) > r1 THEN est - 1 ELSE est
    IN  IF n1 = 4 \/ n100 = 4
        THEN Date(year - 1, 12, 31)
        ELSE Date(year, month, r1 - DaysBeforeMonth(year, month) + 1)

\* date - timedelta(days=n)
MinusDays(dt, n) == fromordinal(toordinal(dt) - n)

\* datetime.strptime(s, "%Y-%m-%d").date(): ValueError unless s has the
\* shape Y-M-D and names a day of the calendar.
strptime(s) ==
    IF s.kind = "ymd" /\ IsDate(s.y, s.m, s.d)
    THEN [ok |-> TRUE, value |-> Date(s.y, s.m, s.d)]
    ELSE [ok |-> FALSE, error |-> "ValueError"]

strftime_Ydm(dt) ==
    << (dt.year \div 1000) % 10, (dt.year \div 100) % 10,
       (dt.year \div 10) % 10, dt.year % 10,
       dt.day \div 10, dt.day % 10,
       dt.month \div 10, dt.month % 10 >>

\* dt.strftime('%Y%m%d'): eight decimal digits.
strftime(dt) ==
    << (dt.year \div 1000) % 10, (dt.year \div 100) % 10,
       (dt.year \div 10) % 10, dt.year % 10,
       dt.month \div 10, dt.month % 10,
       dt.day \div 10, dt.day % 10 >>

-----------------------------------------------------------------------------
(* classify_sentiment                                                      *)

Scores == 0..100

classify_sentiment_ge(score) ==
    IF score >= 65 THEN "positive"
    ELSE IF score < 35 THEN "negative"
    ELSE "neutral"

classify_sentiment(score) ==
    IF score > 65 THEN "positive"
    ELSE IF score < 35 THEN "negative"
    ELSE "neutral"

Labels == {"positive", "neutral", "negative"}

-----------------------------------------------------------------------------
(* Python values the handlers test: truth value, len(), iteration.         *)

\* A query-string parameter: absent (None), the empty string, a string of
\* the shape Y-M-D, or any other string.
Str(kind, y, m, d) == [kind |-> kind, y |-> y, m |-> m, d |-> d]

StrTruthy(s) == s.kind \notin {"absent", "empty"}

\* What fetch_rss_news hands back: a list of articles, None, or an int.
List(items) == [kind |-> "list", items |-> items]
None == [kind |-> "none", items |-> <<>>]
Int5 == [kind |-> "int", items |-> <<>>]
Raised == [kind |-> "raise", items |-> <<>>]

Truthy(v) == \/ v.kind = "list" /\ v.items # <<>>
             \/ v.kind = "int"

\* len(v): TypeError for None and for an int
len(v) == IF v.kind = "list"
          THEN [ok |-> TRUE, value |-> Len(v.items)]
          ELSE [ok |-> FALSE, error |-> "TypeError"]

-----------------------------------------------------------------------------
(* The sentiment collaborator, SnowNLP(text).sentiments: a score for the   *)
(* text, or an exception.                                                  *)

Titles == {"good news", "plain news", "bad news", "unscorable"}

SnowNLP(text) ==
    CASE text = "good news"  -> [ok |-> TRUE, value |-> 90]
      [] text = "plain news" -> [ok |-> TRUE, value |-> 65]
      [] text = "bad news"   -> [ok |-> TRUE, value |-> 10]
      [] OTHER               -> [ok |-> FALSE, error |-> "SentimentError"]

-----------------------------------------------------------------------------
(* get_news, lines 53-96                                                   *)

\* request.args.get(name, default)
args_get(value, default) == IF value = "absent" THEN default ELSE value

\* Lines 61-66: the date range.
date_range_swapped(args, now) ==
    IF StrTruthy(args.start_date) /\ StrTruthy(args.end_date)
    THEN LET s == strptime(args.start_date)
             e == strptime(args.end_date)
         IN  IF ~s.ok THEN s
             ELSE IF ~e.ok THEN e
             ELSE [ok |-> TRUE, start_date |-> e.value, end_date |-> s.value]
    ELSE [ok |-> TRUE, start_date |-> now, end_date |-> MinusDays(now, 7)]

date_range(args, now) ==
    IF StrTruthy(args.start_date) /\ StrTruthy(args.end_date)
    THEN LET s == strptime(args.start_date)
             e == strptime(args.end_date)
         IN  IF ~s.ok THEN s
             ELSE IF ~e.ok THEN e
             ELSE [ok |-> TRUE, start_date |-> s.value, end_date |-> e.value]
    ELSE [ok |-> TRUE, start_date |-> MinusDays(now, 7), end_date |-> now]

\* Lines 74-75: one turn of the loop; the item gets its label in place.
annotate_item_first(news_list, i) ==
    LET sentiment_score == SnowNLP(news_list[1].title)
    IN  IF ~sentiment_score.ok THEN sentiment_score
        ELSE [ok |-> TRUE,
              value |-> [source |-> news_list[i].source,
                         title |-> news_list[i].title,
                         sentiment |-> classify_sentiment(sentiment_score.value)]]

annotate_item(news_list, i) ==
    LET sentiment_score == SnowNLP(news_list[i].title)
    IN  IF ~sentiment_score.ok THEN sentiment_score
        ELSE [ok |-> TRUE,
              value |-> [source |-> news_list[i].source,
                         title |-> news_list[i].title,
                         sentiment |-> classify_sentiment(sentiment_score.value)]]

RECURSIVE annotate_from_skipping(_, _, _)
annotate_from_skipping(news_list, i, done) ==
    IF i > Len(news_list) THEN [ok |-> TRUE, value |-> done]
    ELSE LET r == annotate_item(news_list, i)
         IN  IF ~r.ok THEN annotate_from_skipping(news_list, i + 1, done)
             ELSE annotate_from_skipping(news_list, i + 1,
                                         Append(done, r.value))

\* Lines 72-75: the loop over a list, from item i on; done holds the items
\* annotated so far.  The first exception ends it.
RECURSIVE annotate_from(_, _, _)
annotate_from(news_list, i, done) ==
    IF i > Len(news_list) THEN [ok |-> TRUE, value |-> done]
    ELSE LET r == annotate_item(news_list, i)
         IN  IF ~r.ok THEN r
             ELSE annotate_from(news_list, i + 1, Append(done, r.value))

\* Lines 72-75 for any fetch result: nothing to do for a falsy one,
\* TypeError for a truthy one that cannot be iterated.
annotate(result) ==
    IF ~Truthy(result) THEN [ok |-> TRUE, value |-> result]
    ELSE IF result.kind # "list" THEN [ok |-> FALSE, error |-> "TypeError"]
    ELSE LET r == annotate_from(result.items, 1, <<>>)
         IN  IF ~r.ok THEN r ELSE [ok |-> TRUE, value |-> List(r.value)]

RECURSIVE Counter_of_set(_)
Counter_of_set(keys) ==
    IF keys = <<>> THEN <<>>
    ELSE LET c == Counter_of_set(SubSeq(keys, 1, Len(keys) - 1))
             k == keys[Len(keys)]
         IN  IF \E i \in DOMAIN c : c[i][1] = k THEN c
             ELSE Append(c, <<k, 1>>)

\* collections.Counter(iterable): a dict, which keeps its keys in the order
\* of first insertion; modelled as a sequence of <<key, count>>.
RECURSIVE Counter(_)
Counter(keys) ==
    IF keys = <<>> THEN <<>>
    ELSE LET c == Counter(SubSeq(keys, 1, Len(keys) - 1))
             k == keys[Len(keys)]
         IN  IF \E i \in DOMAIN c : c[i][1] = k
             THEN [i \in DOMAIN c |->
                      IF c[i][1] = k THEN <<k, c[i][2] + 1>> ELSE c[i]]
             ELSE Append(c, <<k, 1>>)

\* One step of a stable sort of pairs by sign * (column col): p goes behind
\* every pair that does not come after it.
RECURSIVE InsertSorted(_, _, _, _)
InsertSorted(sorted, p, col, sign) ==
    IF sorted = <<>> THEN <<p>>
    ELSE IF sign * p[col] < sign * Head(sorted)[col] THEN <<p>> \o sorted
    ELSE <<Head(sorted)>> \o InsertSorted(Tail(sorted), p, col, sign)

\* sorted(pairs, key=column col), stable; sign -1 is reverse=True, which
\* keeps the order of equal elements too.
RECURSIVE StableSort(_, _, _)
StableSort(pairs, col, sign) ==
    IF pairs = <<>> THEN <<>>
    ELSE InsertSorted(StableSort(SubSeq(pairs, 1, Len(pairs) - 1), col, sign),
                      pairs[Len(pairs)], col, sign)

\* Counter.most_common(): sorted(items, key=count, reverse=True)
most_common(counter) == StableSort(counter, 2, -1)

\* Lines 78-82.
source_stats(result) ==
    IF Truthy(result)
    THEN most_common(Counter([i \in DOMAIN result.items |->
                                 result.items[i].source]))
    ELSE <<>>

\* The JSON encoder of flask.jsonify writes the keys of every object in
\* sorted order (sort_keys is on unless the application turns it off, and
\* app.py does not).
json_object(dict) == StableSort(dict, 1, 1)

\* jsonify({"success": False, "error": str(e)}), 500
error_response(status, e) ==
    [status |-> status, json |-> [success |-> FALSE, error |-> e]]

\* Lines 55-69: the arguments of the call of fetch_rss_news.
fetch_args(args, range) ==
    [keyword |-> args_get(args.keyword, "Taiwan"),
     start_date |-> range.start_date,
     end_date |-> range.end_date,
     logic |-> args_get(args.logic, "OR")]

\* Lines 77-92: the statistics and the payload, from the list as the loop
\* left it; len(None) and len(5) raise TypeError.
news_payload(news_list) ==
    LET stats == source_stats(news_list)
        count == len(news_list)
    IN  IF ~count.ok THEN error_response(500, count.error)
        ELSE [status |-> 200,
              json |-> [success |-> TRUE,
                        count |-> count.value,
                        data |-> news_list.items,
                        stats |-> json_object(stats)]]

\* Lines 69-96: from what fetch_rss_news did to the response.
news_response(result) ==
    LET annotated == annotate(result)
    IN  IF result.kind = "raise" THEN error_response(500, "FetchError")
        ELSE IF ~annotated.ok THEN error_response(500, annotated.error)
        ELSE news_payload(annotated.value)

-----------------------------------------------------------------------------
(* download_selected, lines 104-134                                        *)

\* A JSON value: null, a number (n its value), a string (n its length), an
\* object (n its number of keys) or a list (items its elements).
JNull == [kind |-> "null", n |-> 0, items |-> <<>>]
JNumber(n) == [kind |-> "number", n |-> n, items |-> <<>>]
JString(n) == [kind |-> "string", n |-> n, items |-> <<>>]
JObject(n) == [kind |-> "object", n |-> n, items |-> <<>>]
JList(items) == [kind |-> "list", n |-> 0, items |-> items]

\* bool(v) of a deserialized JSON value
JTruthy(v) ==
    CASE v.kind = "null" -> FALSE
      [] v.kind = "list" -> v.items # <<>>
      [] OTHER           -> v.n # 0

\* request.get_json(): the outcomes it can have.  With a JSON content type
\* it parses the body, and a body that does not parse (an empty one
\* included) raises BadRequest.  With any other content type it raises
\* UnsupportedMediaType or returns None, depending on the Flask release.
get_json(request) ==
    IF request.is_json
    THEN IF request.raw = "json"
         THEN {[ok |-> TRUE, value |-> request.value]}
         ELSE {[ok |-> FALSE, error |-> "BadRequest"]}
    ELSE {[ok |-> TRUE, value |-> JNull],
          [ok |-> FALSE, error |-> "UnsupportedMediaType"]}

\* pd.DataFrame(rows).to_excel(output, engine="xlsxwriter"): the writer
\* raises TypeError for a cell that holds a list or an object.
to_excel(rows) ==
    IF \E i \in DOMAIN rows : rows[i] = "nested"
    THEN [ok |-> FALSE, error |-> "TypeError"]
    ELSE [ok |-> TRUE,
          value |-> [sheet_name |-> "Selected News", nrows |-> Len(rows)]]

XlsxMime == "application/vnd.openxmlformats-officedocument.spreadsheetml.sheet"

\* Lines 125-130: send_file(output, mimetype, as_attachment, download_name)
send_file(output, now) ==
    [status |-> 200,
     file |-> [mimetype |-> XlsxMime,
               as_attachment |-> TRUE,
               download_name |-> [prefix |-> "selected_news_",
                                  stamp |-> strftime(now),
                                  suffix |-> ".xlsx"],
               workbook |-> output]]

\* Lines 106: the test that sends 400
is_selection(value) == JTruthy(value) /\ value.kind = "list"

\* Lines 106-134, given what get_json did.
download_response(selected_news, now) ==
    IF ~selected_news.ok THEN error_response(500, selected_news.error)
    ELSE IF ~is_selection(selected_news.value)
    THEN error_response(400, "no selected news")
    ELSE LET output == to_excel(selected_news.value.items)
         IN  IF ~output.ok THEN error_response(500, output.error)
             ELSE send_file(output.value, now)

-----------------------------------------------------------------------------
(* index, lines 140-153                                                    *)

\* os.path.exists(DIST_FOLDER)
os_path_exists(fs) == fs # "absent"

BuildMessage == "frontend/dist not found: run 'npm run build' in 'frontend'"

\* send_from_directory(DIST_FOLDER, "index.html"): the file, or NotFound
send_from_directory(fs) ==
    IF fs = "built"
    THEN [status |-> 200, text |-> "", delegated |-> TRUE,
          read |-> "index.html"]
    ELSE [status |-> 404, text |-> "", delegated |-> TRUE, read |-> "none"]

index_no_check(fs) == send_from_directory(fs)

\* Lines 147-150
not_built ==
    [status |-> 404, text |-> BuildMessage, delegated |-> FALSE,
     read |-> "none"]

index(fs) ==
    IF ~os_path_exists(fs) THEN not_built ELSE send_from_directory(fs)

-----------------------------------------------------------------------------
(* The requests and the collaborators' answers the model draws from.       *)

Absent == Str("absent", 0, 0, 0)

DateStrs == {Absent, Str("empty", 0, 0, 0), Str("garbage", 0, 0, 0),
             Str("ymd", 2024, 2, 30), Str("ymd", 2024, 1, 1),
             Str("ymd", 2024, 2, 29)}

QueryArgs == [keyword : {"absent", "test"}, logic : {"absent", "AND"},
              start_date : DateStrs, end_date : DateStrs]

Sources == {1, 2}

Articles == [source : Sources, title : Titles]

RECURSIVE SeqsUpTo(_, _)
SeqsUpTo(S, n) ==
    IF n = 0 THEN {<<>>}
    ELSE LET shorter == SeqsUpTo(S, n - 1)
         IN  shorter \cup {Append(q, x) : q \in shorter, x \in S}

FetchResults == {Raised, None, Int5}
                    \cup {List(items) : items \in SeqsUpTo(Articles, MaxNews)}

Rows == {"flat", "nested", "scalar"}

JsonValues == {JNull, JNumber(0), JNumber(5), JString(0), JString(3),
               JObject(0), JObject(1)}
                  \cup {JList(items) : items \in SeqsUpTo(Rows, MaxRows)}

PostRequests ==
    [is_json : BOOLEAN, raw : {"empty", "garbage"}, value : {JNull}]
        \cup [is_json : BOOLEAN, raw : {"json"}, value : JsonValues]

StartDay == Date(2024, 3, 5)

Threads == {1, 2}

NoCall == [called |-> FALSE]

NoFrame == [op |-> "none"]

ObjectIds == 1..Cardinality(Threads)

Free == [live |-> FALSE, items |-> <<>>]

NoRequest == [op |-> "none"]

NoResponse == [status |-> 0]



-----------------------------------------------------------------------------
(* Spec: one worker; a request is handled in one step, then its response   *)
(* is sent and the worker takes the next one.  A handler reads the date    *)
(* and the filesystem once, so midnight and builds fall between requests.  *)

Init ==
    /\ today = StartDay
    /\ dist \in {"absent", "empty", "built"}
    /\ req = NoRequest
    /\ fetchCall = NoCall
    /\ resp = NoResponse
    /\ pc = [t \in Threads |-> "idle"]
    /\ frame = [t \in Threads |-> NoFrame]
    /\ heap = [id \in ObjectIds |-> Free]

\* A call of classify_sentiment.
Classify ==
    /\ req = NoRequest
    /\ \E score \in Scores :
          /\ req' = [op |-> "classify_sentiment", score |-> score]
          /\ resp' = [status |-> 0, label |-> classify_sentiment(score)]
    /\ fetchCall' = NoCall
    /\ UNCHANGED <<today, dist, pc, frame, heap>>

\* GET /api/news
GetNews ==
    /\ req = NoRequest
    /\ \E args \in QueryArgs :
          LET range == date_range(args, today)
          IN  /\ req' = [op |-> "get_news", args |-> args]
              /\ IF ~range.ok
                 THEN /\ fetchCall' = NoCall
                      /\ resp' = error_response(500, range.error)
                 ELSE \E result \in FetchResults :
                         /\ fetchCall' = [call |-> fetch_args(args, range),
                                          called |-> TRUE,
                                          result |-> result]
                         /\ resp' = news_response(result)
    /\ UNCHANGED <<today, dist, pc, frame, heap>>

\* POST /api/download-selected
DownloadSelected ==
    /\ req = NoRequest
    /\ \E request \in PostRequests :
          \E selected_news \in get_json(request) :
             /\ req' = [op |-> "download_selected", request |-> request,
                        get_json |-> selected_news]
             /\ resp' = download_response(selected_news, today)
    /\ fetchCall' = NoCall
    /\ UNCHANGED <<today, dist, pc, frame, heap>>

\* GET /
Index ==
    /\ req = NoRequest
    /\ req' = [op |-> "index"]
    /\ resp' = index(dist)
    /\ fetchCall' = NoCall
    /\ UNCHANGED <<today, dist, pc, frame, heap>>

\* The response is sent (the call returns); the worker is free again.
Reply ==
    /\ req # NoRequest
    /\ req' = NoRequest
    /\ fetchCall' = NoCall
    /\ resp' = NoResponse
    /\ UNCHANGED <<today, dist, pc, frame, heap>>

\* Midnight: the server's date moves on.
Tick ==
    /\ req = NoRequest
    /\ toordinal(today) - toordinal(StartDay) < MaxTicks
    /\ today' = fromordinal(toordinal(today) + 1)
    /\ UNCHANGED <<dist, req, fetchCall, resp, pc, frame, heap>>

\* The frontend is built, or its build is removed.
Build ==
    /\ req = NoRequest
    /\ dist' \in {"absent", "empty", "built"} \ {dist}
    /\ UNCHANGED <<today, req, fetchCall, resp, pc, frame, heap>>

Next == \/ Classify
        \/ GetNews
        \/ DownloadSelected
        \/ Index
        \/ Reply
        \/ Tick
        \/ Build

Spec == Init /\ [][Next]_vars

-----------------------------------------------------------------------------
(* SpecThreads: two worker threads, each handler one statement group at a  *)
(* time, so that the handlers of two requests interleave.  A thread's      *)
(* local variables are its frame; a list fetch_rss_news returns is an      *)
(* object on the heap, which the loop of get_news changes in place.        *)

MaxThreadNews == 2   \* longest article list fetch_rss_news returns here

ThreadQueryArgs ==
    {[keyword |-> "test", logic |-> "AND",
      start_date |-> Str("ymd", 2024, 1, 1),
      end_date |-> Str("ymd", 2024, 1, 1)],
     [keyword |-> "test", logic |-> "absent",
      start_date |-> Str("garbage", 0, 0, 0),
      end_date |-> Str("ymd", 2024, 1, 1)]}

ThreadArticles == {[source |-> 2, title |-> "good news"],
                   [source |-> 1, title |-> "unscorable"]}

ThreadFetchResults ==
    {Raised, None}
        \cup {List(items) : items \in SeqsUpTo(ThreadArticles, MaxThreadNews)}

ThreadPosts ==
    {[is_json |-> TRUE, raw |-> "garbage", value |-> JNull],
     [is_json |-> TRUE, raw |-> "json", value |-> JList(<<>>)],
     [is_json |-> TRUE, raw |-> "json", value |-> JList(<<"flat">>)],
     [is_json |-> TRUE, raw |-> "json", value |-> JList(<<"nested">>)]}

Unfetched == [kind |-> "unfetched", items |-> <<>>]

Unbound == [kind |-> "unbound", ref |-> 0]

\* The thread's frame with the fields of changes set.
Assign(t, changes) == [frame EXCEPT ![t] = changes @@ @]

\* The thread's handler returns response: its last step.
Return(t, changes, response) ==
    /\ frame' = [frame EXCEPT ![t] = [response |-> response] @@ changes @@ @]
    /\ pc' = [pc EXCEPT ![t] = "done"]

\* fetch_rss_news builds the list it returns: an object no one else holds.
new_object(objects) ==
    CHOOSE o \in ObjectIds :
        /\ ~objects[o].live
        /\ \A n \in ObjectIds : ~objects[n].live => o <= n

\* Line 69, news_list = ...: the name is a local variable of the call.
bind_news_list_global(frames, t, value) ==
    [u \in Threads |->
        IF frames[u].op = "get_news"
        THEN [news_list |-> value] @@ frames[u]
        ELSE frames[u]]

bind_news_list(frames, t, value) ==
    [frames EXCEPT ![t] = [news_list |-> value] @@ @]

\* Lines 55-66 of get_news.
T_GetNews(t) ==
    /\ pc[t] = "idle"
    /\ \E args \in ThreadQueryArgs :
          LET range == date_range(args, today)
              locals == [op |-> "get_news", args |-> args, today |-> today,
                         called |-> FALSE, fetched |-> Unfetched,
                         news_list |-> Unbound, i |-> 0]
          IN  IF ~range.ok
              THEN Return(t, locals, error_response(500, range.error))
              ELSE /\ frame' = Assign(t, [call |-> fetch_args(args, range)]
                                            @@ locals)
                   /\ pc' = [pc EXCEPT ![t] = "fetch"]
    /\ UNCHANGED <<today, dist, req, fetchCall, resp, heap>>

\* Line 69: the call of fetch_rss_news; a list it returns is a new object.
T_Fetch(t) ==
    /\ pc[t] = "fetch"
    /\ \E result \in ThreadFetchResults :
          LET called == [called |-> TRUE, fetched |-> result]
              id == new_object(heap)
              value == IF result.kind = "list"
                       THEN [kind |-> "list", ref |-> id]
                       ELSE [kind |-> result.kind, ref |-> 0]
          IN  IF result.kind = "raise"
              THEN /\ Return(t, called, error_response(500, "FetchError"))
                   /\ UNCHANGED heap
              ELSE /\ frame' = bind_news_list(Assign(t, [i |-> 1] @@ called),
                                              t, value)
                   /\ heap' = IF result.kind = "list"
                              THEN [heap EXCEPT ![id] =
                                       [live |-> TRUE, items |-> result.items]]
                              ELSE heap
                   /\ pc' = [pc EXCEPT ![t] =
                                IF Truthy(result) THEN "annotate"
                                ELSE "respond"]
    /\ UNCHANGED <<today, dist, req, fetchCall, resp>>

\* Lines 73-75: one turn of the loop, or its end.
T_Annotate(t) ==
    /\ pc[t] = "annotate"
    /\ LET news_list == frame[t].news_list
           i == frame[t].i
       IN  IF news_list.kind # "list"
           THEN /\ Return(t, <<>>, error_response(500, "TypeError"))
                /\ UNCHANGED heap
           ELSE IF i > Len(heap[news_list.ref].items)
           THEN /\ pc' = [pc EXCEPT ![t] = "respond"]
                /\ UNCHANGED <<frame, heap>>
           ELSE LET item == annotate_item(heap[news_list.ref].items, i)
                IN  IF ~item.ok
                    THEN /\ Return(t, <<>>, error_response(500, item.error))
                         /\ UNCHANGED heap
                    ELSE /\ heap' = [heap EXCEPT
                                        ![news_list.ref].items[i] = item.value]
                         /\ frame' = Assign(t, [i |-> i + 1])
                         /\ UNCHANGED pc
    /\ UNCHANGED <<today, dist, req, fetchCall, resp>>

\* Lines 77-92.
T_Respond(t) ==
    /\ pc[t] = "respond"
    /\ LET news_list == frame[t].news_list
           value == IF news_list.kind = "list"
                    THEN List(heap[news_list.ref].items)
                    ELSE [kind |-> news_list.kind, items |-> <<>>]
       IN  Return(t, <<>>, news_payload(value))
    /\ UNCHANGED <<today, dist, req, fetchCall, resp, heap>>

\* Lines 105-110 of download_selected.
T_Download(t) ==
    /\ pc[t] = "idle"
    /\ \E request \in ThreadPosts :
          \E selected_news \in get_json(request) :
             LET locals == [op |-> "download_selected", request |-> request,
                            selected_news |-> selected_news, now |-> StartDay]
             IN  IF ~selected_news.ok
                 THEN Return(t, locals,
                             error_response(500, selected_news.error))
                 ELSE IF ~is_selection(selected_news.value)
                 THEN Return(t, locals,
                             error_response(400, "no selected news"))
                 ELSE /\ frame' = Assign(t, locals)
                      /\ pc' = [pc EXCEPT ![t] = "serialize"]
    /\ UNCHANGED <<today, dist, req, fetchCall, resp, heap>>

\* Lines 113-122.
T_Serialize(t) ==
    /\ pc[t] = "serialize"
    /\ LET output == to_excel(frame[t].selected_news.value.items)
       IN  IF ~output.ok
           THEN Return(t, <<>>, error_response(500, output.error))
           ELSE /\ frame' = Assign(t, [output |-> output.value])
                /\ pc' = [pc EXCEPT ![t] = "send"]
    /\ UNCHANGED <<today, dist, req, fetchCall, resp, heap>>

\* Lines 125-130; datetime.now() is read here.
T_Send(t) ==
    /\ pc[t] = "send"
    /\ Return(t, [now |-> today], send_file(frame[t].output, today))
    /\ UNCHANGED <<today, dist, req, fetchCall, resp, heap>>

\* Lines 146-150 of index.
T_Index(t) ==
    /\ pc[t] = "idle"
    /\ LET locals == [op |-> "index", checked |-> dist, served |-> dist]
       IN  IF ~os_path_exists(dist)
           THEN Return(t, locals, not_built)
           ELSE /\ frame' = Assign(t, locals)
                /\ pc' = [pc EXCEPT ![t] = "send_index"]
    /\ UNCHANGED <<today, dist, req, fetchCall, resp, heap>>

\* Line 153; the directory is read again.
T_SendIndex(t) ==
    /\ pc[t] = "send_index"
    /\ Return(t, [served |-> dist], send_from_directory(dist))
    /\ UNCHANGED <<today, dist, req, fetchCall, resp, heap>>

\* The response is sent; the thread's frame and its list are dropped.
T_Reply(t) ==
    /\ pc[t] = "done"
    /\ pc' = [pc EXCEPT ![t] = "idle"]
    /\ frame' = [frame EXCEPT ![t] = NoFrame]
    /\ heap' = IF frame[t].op = "get_news" /\ frame[t].news_list.kind = "list"
               THEN [heap EXCEPT ![frame[t].news_list.ref] = Free]
               ELSE heap
    /\ UNCHANGED <<today, dist, req, fetchCall, resp>>

NextThreads ==
    \/ \E t \in Threads : T_GetNews(t)
    \/ \E t \in Threads : T_Fetch(t)
    \/ \E t \in Threads : T_Annotate(t)
    \/ \E t \in Threads : T_Respond(t)
    \/ \E t \in Threads : T_Download(t)
    \/ \E t \in Threads : T_Serialize(t)
    \/ \E t \in Threads : T_Send(t)
    \/ \E t \in Threads : T_Index(t)
    \/ \E t \in Threads : T_SendIndex(t)
    \/ \E t \in Threads : T_Reply(t)
    \/ Tick
    \/ Build

SpecThreads == Init /\ [][NextThreads]_vars

-----------------------------------------------------------------------------
(* Properties of classify_sentiment and of the three handlers.             *)

RECURSIVE SumCounts(_)
SumCounts(pairs) ==
    IF pairs = <<>> THEN 0 ELSE Head(pairs)[2] + SumCounts(Tail(pairs))

Occurrences(data, source) ==
    Cardinality({i \in DOMAIN data : data[i].source = source})

FirstIndex(items, source) ==
    CHOOSE i \in DOMAIN items :
        /\ items[i].source = source
        /\ \A j \in 1..(i - 1) : items[j].source # source

StampValue(digits) ==
    (digits[1] * 10000000) + (digits[2] * 1000000) + (digits[3] * 100000)
        + (digits[4] * 10000) + (digits[5] * 1000) + (digits[6] * 100)
        + (digits[7] * 10) + digits[8]

IsErrorObject(r) == /\ DOMAIN r = {"status", "json"}
                    /\ DOMAIN r.json = {"success", "error"}
                    /\ r.json.success = FALSE

\* C1: classify_sentiment returns one of the three labels for every score
\* in [0,1]: positive iff score > 0.65, negative iff score < 0.35, neutral
\* otherwise, so 0.65 and 0.35 themselves are neutral.
C1_ClassifyThresholds ==
    req.op = "classify_sentiment" =>
        /\ resp.label \in Labels
        /\ (resp.label = "positive") <=> (req.score > 65)
        /\ (resp.label = "negative") <=> (req.score < 35)
        /\ (resp.label = "neutral") <=> (req.score >= 35 /\ req.score <= 65)

C1_Witness ==
    /\ req.op = "classify_sentiment"
    /\ req.score = 65
    /\ resp.label = "neutral"

\* C2: a POST /api/download-selected whose body is missing, unparsable,
\* an empty list or no list at all is answered with 400 and an error
\* object, never 500, also when request.get_json itself raises.
C2_BadBodyIs400 ==
    (/\ req.op = "download_selected"
     /\ \/ ~req.get_json.ok
        \/ req.get_json.value.kind # "list"
        \/ req.get_json.value.items = <<>>)
        => /\ resp.status = 400
           /\ resp.json.success = FALSE

\* C3: in a 200 response of GET /api/news with articles, count is the
\* number of articles in data, the values of stats sum to count, and the
\* keys of stats are exactly the sources in data, each with its number of
\* occurrences.
C3_StatsSumToCount ==
    (req.op = "get_news" /\ resp.status = 200 /\ resp.json.data # <<>>) =>
        LET data == resp.json.data
            stats == resp.json.stats
        IN  /\ resp.json.count = Len(data)
            /\ SumCounts(stats) = resp.json.count
            /\ \A i \in DOMAIN data :
                  \E j \in DOMAIN stats : stats[j][1] = data[i].source
            /\ \A j \in DOMAIN stats :
                  /\ stats[j][2] = Occurrences(data, stats[j][1])
                  /\ stats[j][2] > 0
                  /\ \A k \in DOMAIN stats :
                        stats[k][1] = stats[j][1] => k = j

C3_Witness ==
    /\ req.op = "get_news"
    /\ resp.status = 200
    /\ Len(resp.json.data) = 2
    /\ resp.json.stats = << <<2, 2>> >>

\* C4: the window passed to fetch_rss_news is the two parsed dates when
\* both start_date and end_date are valid dates (a single day when they are
\* equal), and [today - 7 days, today], with today as it is during the
\* request, when either is absent; the other parameter is then not used,
\* and not parsed.
C4_Window ==
    req.op = "get_news" =>
        LET s == req.args.start_date
            e == req.args.end_date
        IN  /\ (s.kind = "ymd" /\ IsDate(s.y, s.m, s.d)
                  /\ e.kind = "ymd" /\ IsDate(e.y, e.m, e.d))
                  => /\ fetchCall.called
                     /\ fetchCall.call.start_date = Date(s.y, s.m, s.d)
                     /\ fetchCall.call.end_date = Date(e.y, e.m, e.d)
            /\ (s = Absent \/ e = Absent)
                  => /\ fetchCall.called
                     /\ fetchCall.call.end_date = today
                     /\ toordinal(fetchCall.call.end_date)
                           - toordinal(fetchCall.call.start_date) = 7
                     /\ IsDate(fetchCall.call.start_date.year,
                               fetchCall.call.start_date.month,
                               fetchCall.call.start_date.day)

C4_Witness ==
    /\ req.op = "get_news"
    /\ req.args.start_date.kind = "garbage"
    /\ req.args.end_date = Absent
    /\ today # StartDay
    /\ fetchCall.called
    /\ fetchCall.call.end_date = today
    /\ fetchCall.call.start_date = Date(2024, 2, 28)

\* C5: in a 200 response of GET /api/news, data is the list fetch_rss_news
\* returned, article by article in the same order, and each article has
\* the label classify_sentiment gives the score of its own title (positive
\* for a title scoring 0.9).
C5_DataAnnotatedInOrder ==
    (req.op = "get_news" /\ resp.status = 200) =>
        /\ fetchCall.called
        /\ fetchCall.result.kind = "list"
        /\ Len(resp.json.data) = Len(fetchCall.result.items)
        /\ \A i \in DOMAIN resp.json.data :
              LET item == resp.json.data[i]
                  fetched == fetchCall.result.items[i]
              IN  /\ item.source = fetched.source
                  /\ item.title = fetched.title
                  /\ item.sentiment \in Labels
                  /\ SnowNLP(fetched.title).ok
                  /\ item.sentiment
                        = classify_sentiment(SnowNLP(fetched.title).value)
                  /\ (SnowNLP(fetched.title).value = 90
                         => item.sentiment = "positive")

C5_Witness ==
    /\ req.op = "get_news"
    /\ resp.status = 200
    /\ Len(resp.json.data) = 2
    /\ resp.json.data[1].title = "bad news"
    /\ resp.json.data[1].sentiment = "negative"
    /\ resp.json.data[2].title = "good news"
    /\ resp.json.data[2].sentiment = "positive"

\* Some step of get_news raises: a date that does not parse, fetch_rss_news
\* itself, a result that is no list, or the score of some title.
StepRaises ==
    \/ /\ StrTruthy(req.args.start_date)
       /\ StrTruthy(req.args.end_date)
       /\ \/ ~strptime(req.args.start_date).ok
          \/ ~strptime(req.args.end_date).ok
    \/ /\ fetchCall.called
       /\ \/ fetchCall.result.kind # "list"
          \/ \E i \in DOMAIN fetchCall.result.items :
                ~SnowNLP(fetchCall.result.items[i].title).ok

\* C6: GET /api/news answers either 200 with success, count, data and
\* stats, every article labelled, or 500 with the error object and nothing
\* else; it is the error object whenever a step raises, whichever article
\* the failure is at.
C6_NoPartialResults ==
    req.op = "get_news" =>
        /\ resp.status \in {200, 500}
        /\ resp.status = 500 <=> StepRaises
        /\ resp.status = 500 => IsErrorObject(resp)
        /\ resp.status = 200 =>
              /\ DOMAIN resp.json = {"success", "count", "data", "stats"}
              /\ resp.json.success = TRUE
              /\ Len(resp.json.data) = Len(fetchCall.result.items)
              /\ \A i \in DOMAIN resp.json.data :
                    resp.json.data[i].sentiment \in Labels

C6_Witness ==
    /\ req.op = "get_news"
    /\ fetchCall.called
    /\ fetchCall.result.kind = "list"
    /\ Len(fetchCall.result.items) = 2
    /\ fetchCall.result.items[1].title = "good news"
    /\ fetchCall.result.items[2].title = "unscorable"
    /\ resp.status = 500
    /\ IsErrorObject(resp)

\* C7: a POST /api/download-selected with a non-empty list of objects is
\* answered, when serialization succeeds, with 200, the spreadsheet MIME
\* type, as an attachment named selected_news_<YYYYMMDD>.xlsx for the
\* server's date during the request; when serialization raises, with 500
\* and the error object, and no file.
C7_DownloadNamedByDate ==
    (/\ req.op = "download_selected"
     /\ req.get_json.ok
     /\ req.get_json.value.kind = "list"
     /\ req.get_json.value.items # <<>>
     /\ \A i \in DOMAIN req.get_json.value.items :
           req.get_json.value.items[i] \in {"flat", "nested"})
        => IF \A i \in DOMAIN req.get_json.value.items :
                 req.get_json.value.items[i] = "flat"
           THEN /\ resp.status = 200
                /\ resp.file.mimetype = XlsxMime
                /\ resp.file.as_attachment
                /\ resp.file.download_name.prefix = "selected_news_"
                /\ resp.file.download_name.suffix = ".xlsx"
                /\ Len(resp.file.download_name.stamp) = 8
                /\ StampValue(resp.file.download_name.stamp)
                      = (today.year * 10000) + (today.month * 100) + today.day
           ELSE /\ resp.status = 500
                /\ IsErrorObject(resp)

C7_Witness ==
    /\ req.op = "download_selected"
    /\ resp.status = 200
    /\ today = Date(2024, 3, 6)
    /\ resp.file.download_name.stamp = <<2, 0, 2, 4, 0, 3, 0, 6>>
    /\ Len(req.get_json.value.items) = 2

\* C8: GET / with no frontend/dist directory at the time of the request is
\* answered with 404 and the build instruction as plain text, and no file
\* is read; with the directory there, the handler delegates to
\* send_from_directory for index.html.
C8_IndexChecksDist ==
    req.op = "index" =>
        IF dist = "absent"
        THEN /\ resp.status = 404
             /\ resp.text = BuildMessage
             /\ ~resp.delegated
             /\ resp.read = "none"
        ELSE /\ resp.delegated
             /\ dist = "built" => (resp.status = 200 /\ resp.read = "index.html")

C8_Witness ==
    /\ req.op = "index"
    /\ dist = "absent"
    /\ resp.status = 404
    /\ resp.text = BuildMessage

\* C9: the stats object of a GET /api/news response lists the sources by
\* descending count, sources with equal counts in the order in which they
\* first occur in the fetched list.
C9_StatsByCountThenFirstSeen ==
    (req.op = "get_news" /\ resp.status = 200) =>
        LET stats == resp.json.stats
            items == fetchCall.result.items
        IN  \A j, k \in DOMAIN stats :
               j < k =>
                  \/ stats[j][2] > stats[k][2]
                  \/ /\ stats[j][2] = stats[k][2]
                     /\ FirstIndex(items, stats[j][1])
                           < FirstIndex(items, stats[k][1])

\* The response the request of frame f gets when it is handled alone, from
\* its parameters or body, what the collaborators returned to it, and the
\* date and the directory as it read them.
AloneResponse(f) ==
    CASE f.op = "get_news" ->
            IF ~date_range(f.args, f.today).ok
            THEN error_response(500, date_range(f.args, f.today).error)
            ELSE news_response(f.fetched)
      [] f.op = "download_selected" ->
            download_response(f.selected_news, f.now)
      [] f.op = "index" ->
            IF os_path_exists(f.checked) THEN send_from_directory(f.served)
            ELSE index(f.checked)

\* The list of thread t: the fetched one, its first n items labelled.
LabelledUpTo(items, n) ==
    [k \in DOMAIN items |->
        IF k <= n THEN annotate_item(items, k).value ELSE items[k]]

HoldsList(t) == /\ pc[t] \in {"annotate", "respond", "done"}
                /\ frame[t].op = "get_news"
                /\ frame[t].news_list.kind = "list"

\* C10: however the handlers of concurrent requests interleave, each
\* response is the one the request gets when handled alone; a thread's
\* article list is its own object, and holds exactly the labels that
\* thread's own loop has put there.
C10_RequestsIndependent ==
    \A t \in Threads :
        /\ pc[t] = "done" => frame[t].response = AloneResponse(frame[t])
        /\ HoldsList(t) =>
              /\ heap[frame[t].news_list.ref].live
              /\ \A u \in Threads \ {t} :
                    HoldsList(u) =>
                        frame[u].news_list.ref # frame[t].news_list.ref
        /\ (HoldsList(t) /\ pc[t] # "done") =>
              heap[frame[t].news_list.ref].items
                 = LabelledUpTo(frame[t].fetched.items, frame[t].i - 1)

C10_Witness ==
    /\ pc[1] = "done"
    /\ frame[1].op = "get_news"
    /\ frame[1].response.status = 200
    /\ Len(frame[1].response.json.data) = 2
    /\ pc[2] = "annotate"
    /\ frame[2].i = 2
    /\ Len(frame[2].fetched.items) = 2
    /\ frame[2].fetched.items # frame[1].fetched.items

====
